---- MODULE Spec2Model ----
(***************************************************************************)
(* A model of the GraphQL worker of src/src/index.js: the dispatch done by *)
(* fetch, the arguments of Mutation.chat as the schema coerces them, the   *)
(* chat resolver on both sides of its one await, the engine's completion   *)
(* of the resolver's value against the schema, and the HTTP response.      *)
(*                                                                         *)
(* Conventions.  A JavaScript value that may be undefined, null, a number  *)
(* or a string is a tagged record (Undefined, Null, Num(n), Str(s)).       *)
(* A Float is held in tenths (0.9 is Num(9), 1.0 is Num(10)), so that the  *)
(* comparisons of the resolver are comparisons of integers.  The text of   *)
(* an error message is a sequence of characters, so that concatenation,    *)
(* prefixes and substrings are computed and not assumed.                   *)
(***************************************************************************)
EXTENDS Integers, Sequences, FiniteSets, TLC

VARIABLES env, pc, req, payload, calls, outstanding, reply, resp

vars == <<env, pc, req, payload, calls, outstanding, reply, resp>>

----------------------------------------------------------------------------
(* Bounds of the model *)

\* the longest messages argument
MaxMsgs == 2

\* the most choices an upstream completion carries
MaxChoices == 2

\* the number of requests in flight together (specification SpecConc)
NumReq == 2

----------------------------------------------------------------------------
(* JavaScript values *)

Undefined == [k |-> "undefined"]

Null == [k |-> "null"]

Num(n) == [k |-> "num", v |-> n]

Str(s) == [k |-> "str", v |-> s]

\* the placeholders of the model's per-request state
NoReq == [k |-> "none"]

NoPayload == [k |-> "none"]

NoReply == [k |-> "none"]

NoResp == [k |-> "none"]

----------------------------------------------------------------------------
(* Texts, as sequences of characters *)

\* 'OpenAI API key is not configured' (index.js:66)
MsgKeyNotConfigured ==
  <<"O", "p", "e", "n", "A", "I", " ", "A", "P", "I", " ", "k", "e", "y",
    " ", "i", "s", " ", "n", "o", "t", " ", "c", "o", "n", "f", "i", "g",
    "u", "r", "e", "d">>

\* 'OpenAI API Error: ' (index.js:117)
PrefixAPIError ==
  <<"O", "p", "e", "n", "A", "I", " ", "A", "P", "I", " ", "E", "r", "r",
    "o", "r", ":", " ">>

\* 'Failed to call OpenAI API: ' (index.js:119)
PrefixFailed ==
  <<"F", "a", "i", "l", "e", "d", " ", "t", "o", " ", "c", "a", "l", "l",
    " ", "O", "p", "e", "n", "A", "I", " ", "A", "P", "I", ":", " ">>

\* the substring 'API key'
SubAPIKey ==
  <<"A", "P", "I", " ", "k", "e", "y">>

\* TypeError of choice.message when choices[0] is undefined (index.js:105)
MsgReadMessage ==
  <<"C", "a", "n", "n", "o", "t", " ", "r", "e", "a", "d", " ", "p", "r",
    "o", "p", "e", "r", "t", "i", "e", "s", " ", "o", "f", " ", "u", "n",
    "d", "e", "f", "i", "n", "e", "d", " ", "(", "r", "e", "a", "d", "i",
    "n", "g", " ", "'", "m", "e", "s", "s", "a", "g", "e", "'", ")">>

\* TypeError of choice.message.role when the choice has no message (index.js:105)
MsgReadRole ==
  <<"C", "a", "n", "n", "o", "t", " ", "r", "e", "a", "d", " ", "p", "r",
    "o", "p", "e", "r", "t", "i", "e", "s", " ", "o", "f", " ", "u", "n",
    "d", "e", "f", "i", "n", "e", "d", " ", "(", "r", "e", "a", "d", "i",
    "n", "g", " ", "'", "r", "o", "l", "e", "'", ")">>

\* the engine's error for a null value of content: String! (index.js:10)
MsgNullContent ==
  <<"C", "a", "n", "n", "o", "t", " ", "r", "e", "t", "u", "r", "n", " ",
    "n", "u", "l", "l", " ", "f", "o", "r", " ", "n", "o", "n", "-", "n",
    "u", "l", "l", "a", "b", "l", "e", " ", "f", "i", "e", "l", "d", " ",
    "M", "e", "s", "s", "a", "g", "e", ".", "c", "o", "n", "t", "e", "n",
    "t", ".">>

\* SyntaxError of request.json() (index.js:153)
MsgBadJSON ==
  <<"U", "n", "e", "x", "p", "e", "c", "t", "e", "d", " ", "t", "o", "k",
    "e", "n">>

\* TypeError of destructuring a JSON null body (index.js:153)
MsgDestructure ==
  <<"C", "a", "n", "n", "o", "t", " ", "d", "e", "s", "t", "r", "u", "c",
    "t", "u", "r", "e", " ", "p", "r", "o", "p", "e", "r", "t", "y", " ",
    "'", "q", "u", "e", "r", "y", "'">>

\* the engine's complaint about variableValues (index.js:158)
MsgSetup ==
  <<"V", "a", "r", "i", "a", "b", "l", "e", "s", " ", "m", "u", "s", "t",
    " ", "b", "e", " ", "p", "r", "o", "v", "i", "d", "e", "d", " ", "a",
    "s", " ", "a", "n", " ", "O", "b", "j", "e", "c", "t">>

\* the engine's error for a query text that does not parse (index.js:157)
MsgSyntax ==
  <<"S", "y", "n", "t", "a", "x", " ", "E", "r", "r", "o", "r">>

\* an upstream error message
MsgRateLimit ==
  <<"4", "2", "9", " ", "R", "a", "t", "e", " ", "l", "i", "m", "i", "t">>

\* a transport error message
MsgConnection ==
  <<"f", "e", "t", "c", "h", " ", "f", "a", "i", "l", "e", "d">>

----------------------------------------------------------------------------
(* Text operations *)

\* s starts with p
StartsWith(s, p) == Len(s) >= Len(p) /\ SubSeq(s, 1, Len(p)) = p

\* sub occurs in s
Contains(s, sub) ==
  \E i \in 0..(Len(s) - Len(sub)) : SubSeq(s, i + 1, i + Len(sub)) = sub

----------------------------------------------------------------------------
(* The schema: Mutation.chat and its argument defaults *)

\* the declared default of each optional argument of Mutation.chat
chatDefaults ==
  [model             |-> Str("gpt-3.5-turbo"),
   temperature       |-> Num(7),
   max_tokens        |-> Num(1000),
   top_p             |-> Num(10),
   frequency_penalty |-> Num(0),
   presence_penalty  |-> Num(0)]

\* an argument the query leaves out takes its default; a supplied value,
\* the literal null included, is kept
argValue(supplied, default) ==
  IF supplied = Undefined THEN default ELSE supplied

\* the arguments the engine hands to the resolver
coerceArgs(s) ==
  [messages          |-> s.messages,
   model             |-> argValue(s.model, chatDefaults.model),
   temperature       |-> argValue(s.temperature, chatDefaults.temperature),
   max_tokens        |-> argValue(s.max_tokens, chatDefaults.max_tokens),
   top_p             |-> argValue(s.top_p, chatDefaults.top_p),
   frequency_penalty |-> argValue(s.frequency_penalty,
                                  chatDefaults.frequency_penalty),
   presence_penalty  |-> argValue(s.presence_penalty,
                                  chatDefaults.presence_penalty)]

----------------------------------------------------------------------------
(* resolvers.chat, up to its await *)

\* keyMissing testing for undefined alone: an empty key passes
keyMissing_undefinedOnly(e) == e.OPENAI_API_KEY = Undefined

\* !env.OPENAI_API_KEY: undefined and the empty string are falsy
keyMissing(e) ==
  e.OPENAI_API_KEY = Undefined \/ e.OPENAI_API_KEY = Str("")

\* includeTopP without the comparison with the default
includeTopP_noDefault(a) == a.top_p /= Undefined

\* top_p !== undefined && top_p !== 1.0
includeTopP(a) == a.top_p /= Undefined /\ a.top_p /= Num(10)

\* frequency_penalty !== undefined && frequency_penalty !== 0.0
includeFrequencyPenalty(a) ==
  a.frequency_penalty /= Undefined /\ a.frequency_penalty /= Num(0)

\* presence_penalty !== undefined && presence_penalty !== 0.0
includePresencePenalty(a) ==
  a.presence_penalty /= Undefined /\ a.presence_penalty /= Num(0)

\* baseParams with the messages in reverse order
baseParams_reversed(a) ==
  [f \in {"model", "messages", "temperature", "max_tokens"} |->
     IF f = "messages"
     THEN [i \in 1..Len(a.messages) |-> a.messages[Len(a.messages) + 1 - i]]
     ELSE a[f]]

\* the four fields requestParams is built with
baseParams(a) ==
  [f \in {"model", "messages", "temperature", "max_tokens"} |-> a[f]]

\* requestParams as passed to openai.chat.completions.create
requestParams(a) ==
  LET optional ==
        (IF includeTopP(a) THEN {"top_p"} ELSE {})
        \cup (IF includeFrequencyPenalty(a) THEN {"frequency_penalty"} ELSE {})
        \cup (IF includePresencePenalty(a) THEN {"presence_penalty"} ELSE {})
      base == baseParams(a)
  IN  [f \in DOMAIN base \cup optional |->
         IF f \in DOMAIN base THEN base[f] ELSE a[f]]

\* the resolver until it suspends: it throws, or it starts the upstream call
chatStart(a, e) ==
  IF keyMissing(e)
  THEN [k |-> "throw", message |-> MsgKeyNotConfigured]
  ELSE [k |-> "call", params |-> requestParams(a)]

----------------------------------------------------------------------------
(* resolvers.chat, after its await *)

\* firstChoice taking the last choice
firstChoice_last(completion) ==
  IF Len(completion.choices) > 0
  THEN completion.choices[Len(completion.choices)]
  ELSE Undefined

\* completion.choices[0]
firstChoice(completion) ==
  IF Len(completion.choices) > 0 THEN completion.choices[1] ELSE Undefined

\* completion.usage ? {...} : null
usageOf(completion) ==
  IF completion.usage /= Undefined /\ completion.usage /= Null
  THEN [prompt_tokens     |-> completion.usage.prompt_tokens,
        completion_tokens |-> completion.usage.completion_tokens,
        total_tokens      |-> completion.usage.total_tokens]
  ELSE Null

\* the object the resolver returns for a completion
chatResponse(completion, choice) ==
  [id      |-> completion.id,
   object  |-> completion.object,
   created |-> completion.created,
   model   |-> completion.model,
   message |-> [role    |-> choice.message.role,
                content |-> choice.message.content],
   usage   |-> usageOf(completion)]

\* the try block from the await on: what create() threw is rethrown to the
\* catch; reading .message of a missing choice, or .role of a missing
\* message, throws a TypeError
tryBlock(rep) ==
  IF rep.k = "APIError"
  THEN [k |-> "throw", apiError |-> TRUE, message |-> rep.message]
  ELSE IF rep.k = "Error"
  THEN [k |-> "throw", apiError |-> FALSE, message |-> rep.message]
  ELSE LET choice == firstChoice(rep)
       IN  IF choice = Undefined
           THEN [k |-> "throw", apiError |-> FALSE, message |-> MsgReadMessage]
           ELSE IF choice.message = Undefined
           THEN [k |-> "throw", apiError |-> FALSE, message |-> MsgReadRole]
           ELSE [k |-> "return", value |-> chatResponse(rep, choice)]

\* the catch block: error instanceof OpenAI.APIError decides the prefix
catchBlock(error) ==
  IF error.apiError
  THEN PrefixAPIError \o error.message
  ELSE PrefixFailed \o error.message

\* the resolver from the await on
chatFinish(rep) ==
  LET t == tryBlock(rep)
  IN  IF t.k = "throw"
      THEN [k |-> "throw", message |-> catchBlock(t)]
      ELSE t

----------------------------------------------------------------------------
(* The engine's result for the chat field *)

\* contentIsString for a nullable content field
contentIsString_nullable(value) == TRUE

\* Message.content is String!: null is not a value of it
contentIsString(value) ==
  value.message.content /= Null /\ value.message.content /= Undefined

\* the execution result for what the resolver threw or returned: an error
\* in chat: ChatResponse!, message: Message! or content: String! leaves no
\* nullable field below data, so data is null
completeChat(outcome) ==
  IF outcome.k = "throw"
  THEN [data |-> Null, errors |-> <<[message |-> outcome.message]>>]
  ELSE IF ~contentIsString(outcome.value)
  THEN [data |-> Null, errors |-> <<[message |-> MsgNullContent]>>]
  ELSE [data |-> [chat |-> outcome.value]]

----------------------------------------------------------------------------
(* fetch: the responses *)

\* setCorsHeaders
setCorsHeaders(response) ==
  [response EXCEPT
     !.cors = [origin  |-> "*",
               methods |-> "GET, POST, OPTIONS",
               headers |-> "Content-Type, Authorization"]]

\* new Response(body, {status, headers}); the status defaults to 200
Response(status, type, body) ==
  [status |-> status, type |-> type, body |-> body, cors |-> Undefined]

\* the reply to a CORS preflight
preflightResponse == setCorsHeaders(Response(200, "none", Null))

\* the console page
playgroundResponse ==
  setCorsHeaders(Response(200, "text/html", [html |-> "GraphQL Playground"]))

\* the health endpoint
healthResponse ==
  setCorsHeaders(Response(200, "application/json",
                          [status |-> "ok", timestamp |-> "now"]))

\* the description of the endpoints
defaultResponse ==
  setCorsHeaders(Response(200, "application/json",
    [message   |-> "GraphQL OpenAI Service",
     endpoints |-> [graphql |-> "/graphql", health |-> "/health"]]))

\* the response carrying an execution result
resultResponse(result) ==
  setCorsHeaders(Response(200, "application/json", result))

\* errorResponse without its status
errorResponse_noStatus(message) ==
  setCorsHeaders(Response(200, "application/json",
                          [errors |-> <<[message |-> message]>>]))

\* the catch of the POST branch
errorResponse(message) ==
  setCorsHeaders(Response(400, "application/json",
                          [errors |-> <<[message |-> message]>>]))

----------------------------------------------------------------------------
(* fetch: the dispatch *)

\* route with /health answering GET alone
route_healthGetOnly(method, path) ==
  IF method = "OPTIONS" THEN "preflight"
  ELSE IF path = "/graphql" /\ method = "GET" THEN "playground"
  ELSE IF path = "/graphql" /\ method = "POST" THEN "graphql"
  ELSE IF path = "/health" /\ method = "GET" THEN "health"
  ELSE "default"

\* the handler fetch runs for a method and a path
route(method, path) ==
  IF method = "OPTIONS" THEN "preflight"
  ELSE IF path = "/graphql" /\ method = "GET" THEN "playground"
  ELSE IF path = "/graphql" /\ method = "POST" THEN "graphql"
  ELSE IF path = "/health" THEN "health"
  ELSE "default"

\* the response of a handler that awaits nothing
staticResponse(handler) ==
  IF handler = "preflight" THEN preflightResponse
  ELSE IF handler = "playground" THEN playgroundResponse
  ELSE IF handler = "health" THEN healthResponse
  ELSE defaultResponse

\* resolvers.health
health == [data |-> [health |-> "GraphQL OpenAI Service is running!"]]

\* graphqlStart with a resolver that does not await the call it starts
graphqlStart_noAwait(op, e) ==
  IF op.k = "badVariables"
  THEN [resp |-> errorResponse(MsgSetup), params |-> NoPayload]
  ELSE IF op.k = "invalid"
  THEN [resp   |-> resultResponse([errors |-> <<[message |-> MsgSyntax]>>]),
        params |-> NoPayload]
  ELSE IF op.k = "health"
  THEN [resp |-> resultResponse(health), params |-> NoPayload]
  ELSE LET s == chatStart(coerceArgs(op.args), e)
       IN  IF s.k = "throw"
           THEN [resp   |-> resultResponse(completeChat(s)),
                 params |-> NoPayload]
           ELSE [resp   |-> resultResponse(completeChat(
                              [k |-> "throw", message |-> MsgReadMessage])),
                 params |-> s.params]

\* graphql({...}) up to the resolver's await: the engine throws on
\* variableValues that are no object, returns the errors of a document that
\* does not parse or validate, and else runs the operation
graphqlStart(op, e) ==
  IF op.k = "badVariables"
  THEN [resp |-> errorResponse(MsgSetup), params |-> NoPayload]
  ELSE IF op.k = "invalid"
  THEN [resp   |-> resultResponse([errors |-> <<[message |-> MsgSyntax]>>]),
        params |-> NoPayload]
  ELSE IF op.k = "health"
  THEN [resp |-> resultResponse(health), params |-> NoPayload]
  ELSE LET s == chatStart(coerceArgs(op.args), e)
       IN  IF s.k = "throw"
           THEN [resp   |-> resultResponse(completeChat(s)),
                 params |-> NoPayload]
           ELSE [resp |-> NoResp, params |-> s.params]

\* the POST branch up to the resolver's await: request.json(), the
\* destructuring of the body, then graphql
postStart(body, e) ==
  IF body.k = "badjson"
  THEN [resp |-> errorResponse(MsgBadJSON), params |-> NoPayload]
  ELSE IF body.k = "null"
  THEN [resp |-> errorResponse(MsgDestructure), params |-> NoPayload]
  ELSE graphqlStart(body.op, e)

\* the POST branch from the resolver's await on
postFinish(rep) == resultResponse(completeChat(chatFinish(rep)))
----------------------------------------------------------------------------
(* The inputs: requests, credentials and upstream replies *)

\* sequences over S of length lo..hi
SeqsOf(S, lo, hi) == UNION {[1..n -> S] : n \in lo..hi}

\* the values of env.OPENAI_API_KEY: unset, empty, set
Envs ==
  {[OPENAI_API_KEY |-> v] : v \in {Undefined, Str(""), Str("sk-test")}}

\* the MessageInput values of the requests
InputMessages ==
  {[role |-> "system", content |-> "Be brief."],
   [role |-> "user", content |-> "Hi"]}

\* the arguments a chat mutation supplies; Undefined is an argument left out
SuppliedArgs ==
  [messages          : SeqsOf(InputMessages, 0, MaxMsgs),
   model             : {Undefined, Str("gpt-4")},
   temperature       : {Undefined, Num(8)},
   max_tokens        : {Undefined, Num(300)},
   top_p             : {Undefined, Null, Num(9), Num(10)},
   frequency_penalty : {Undefined, Num(0), Num(1)},
   presence_penalty  : {Undefined, Num(0), Num(1)}]

\* the operations a JSON body asks for
Operations ==
  {[k |-> "badVariables"], [k |-> "invalid"], [k |-> "health"]}
  \cup {[k |-> "chat", args |-> a] : a \in SuppliedArgs}

\* the bodies of a POST to /graphql
Bodies ==
  {[k |-> "badjson"], [k |-> "null"]}
  \cup {[k |-> "json", op |-> o] : o \in Operations}

Methods == {"GET", "POST", "OPTIONS", "PUT"}

Paths == {"/graphql", "/health", "/"}

\* the requests: a body is modelled where fetch reads it
Requests(bodies) ==
  {[method |-> x[1], path |-> x[2], body |-> Null] :
     x \in {y \in Methods \X Paths : route(y[1], y[2]) /= "graphql"}}
  \cup {[method |-> "POST", path |-> "/graphql", body |-> b] : b \in bodies}

\* the choices of a completion: with content, with null content, and
\* without a message
Choices ==
  {[message |-> [role |-> Str("assistant"), content |-> Str("Hello!")]],
   [message |-> [role |-> Str("assistant"), content |-> Null]],
   [message |-> Undefined]}

\* the usage of a completion, when it has one (it may also be left out,
\* or null)
SomeUsage ==
  [prompt_tokens |-> Num(9), completion_tokens |-> Num(3),
   total_tokens |-> Num(12)]

\* the completions create() resolves with
Completions ==
  [k       : {"completion"},
   id      : {Str("chatcmpl-1")},
   object  : {Str("chat.completion")},
   created : {Num(1700000000)},
   model   : {Str("gpt-4-0613")},
   choices : SeqsOf(Choices, 0, MaxChoices),
   usage   : {Undefined, Null, SomeUsage}]

\* what create() settles with: a completion, an OpenAI.APIError, or another
\* error
Replies ==
  Completions
  \cup [k : {"APIError"}, message : {<<>>, MsgRateLimit}]
  \cup [k : {"Error"}, message : {<<>>, MsgConnection}]

\* the requests and replies of the concurrent specification
ConcArgs ==
  {[messages |-> <<[role |-> "user", content |-> "Hi"]>>,
    model |-> Undefined, temperature |-> Undefined, max_tokens |-> Undefined,
    top_p |-> Undefined, frequency_penalty |-> Undefined,
    presence_penalty |-> Undefined],
   [messages |-> <<[role |-> "system", content |-> "Be brief."],
                   [role |-> "user", content |-> "Hi"]>>,
    model |-> Str("gpt-4"), temperature |-> Num(8), max_tokens |-> Num(300),
    top_p |-> Num(9), frequency_penalty |-> Num(1),
    presence_penalty |-> Undefined]}

ConcBodies == {[k |-> "json", op |-> [k |-> "chat", args |-> a]] : a \in ConcArgs}

ConcRequests ==
  {[method |-> "POST", path |-> "/graphql", body |-> b] : b \in ConcBodies}

ConcReplies ==
  {c \in Completions :
     /\ Len(c.choices) = 1
     /\ c.choices[1].message /= Undefined
     /\ c.usage = SomeUsage}
  \cup [k : {"APIError"}, message : {MsgRateLimit}]

----------------------------------------------------------------------------
(* The state and the steps of a request *)

\* completionOf reading a completion kept in one place for all requests
completionOf_shared(r) ==
  reply[CHOOSE q \in DOMAIN reply : reply[q] /= NoReply]

\* const completion = await ...: what the resolver of request r resumes with
completionOf(r) == reply[r]

\* contextValue: { env }: the credential request r runs with
envOf(r) == env

InitOver(ids) ==
  /\ env \in Envs
  /\ pc = [r \in ids |-> "idle"]
  /\ req = [r \in ids |-> NoReq]
  /\ payload = [r \in ids |-> NoPayload]
  /\ calls = [r \in ids |-> 0]
  /\ outstanding = [r \in ids |-> FALSE]
  /\ reply = [r \in ids |-> NoReply]
  /\ resp = [r \in ids |-> NoResp]

\* fetch is called: it routes, and answers at once unless the request is a
\* POST to /graphql, whose body it awaits
Fetch(r, requests) ==
  /\ pc[r] = "idle"
  /\ \E q \in requests :
       LET handler == route(q.method, q.path)
       IN  /\ req' = [req EXCEPT ![r] = q]
           /\ IF handler = "graphql"
              THEN /\ pc' = [pc EXCEPT ![r] = "readBody"]
                   /\ resp' = resp
              ELSE /\ pc' = [pc EXCEPT ![r] = "done"]
                   /\ resp' = [resp EXCEPT ![r] = staticResponse(handler)]
  /\ UNCHANGED <<env, payload, calls, outstanding, reply>>

\* request.json() settles and the POST branch runs up to the resolver's
\* await, or to its response when nothing is awaited
ParseBody(r) ==
  /\ pc[r] = "readBody"
  /\ LET o == postStart(req[r].body, envOf(r))
         called == o.params /= NoPayload
     IN  /\ payload' = [payload EXCEPT ![r] = o.params]
         /\ calls' = [calls EXCEPT ![r] = @ + (IF called THEN 1 ELSE 0)]
         /\ outstanding' = [outstanding EXCEPT ![r] = called]
         /\ resp' = [resp EXCEPT ![r] = o.resp]
         /\ pc' = [pc EXCEPT ![r] = IF o.resp = NoResp THEN "awaiting"
                                    ELSE "done"]
  /\ UNCHANGED <<env, req, reply>>

\* the upstream call of request r settles
UpstreamReply(r, replies) ==
  /\ outstanding[r]
  /\ \E rep \in replies : reply' = [reply EXCEPT ![r] = rep]
  /\ outstanding' = [outstanding EXCEPT ![r] = FALSE]
  /\ UNCHANGED <<env, pc, req, payload, calls, resp>>

\* the resolver resumes, the engine completes its value and fetch responds
ChatResume(r) ==
  /\ pc[r] = "awaiting"
  /\ ~outstanding[r]
  /\ resp' = [resp EXCEPT ![r] = postFinish(completionOf(r))]
  /\ pc' = [pc EXCEPT ![r] = "done"]
  /\ UNCHANGED <<env, req, payload, calls, outstanding, reply>>

\* one request, over all the inputs
Init == InitOver({1})

FetchStep == \E r \in DOMAIN pc : Fetch(r, Requests(Bodies))

ParseBodyStep == \E r \in DOMAIN pc : ParseBody(r)

UpstreamReplyStep == \E r \in DOMAIN pc : UpstreamReply(r, Replies)

ChatResumeStep == \E r \in DOMAIN pc : ChatResume(r)

Next == FetchStep \/ ParseBodyStep \/ UpstreamReplyStep \/ ChatResumeStep

Spec == Init /\ [][Next]_vars

\* NumReq requests in flight together, over the chat requests of ConcRequests
InitConc == InitOver(1..NumReq)

ConcFetchStep == \E r \in DOMAIN pc : Fetch(r, ConcRequests)

ConcUpstreamReplyStep == \E r \in DOMAIN pc : UpstreamReply(r, ConcReplies)

NextConc ==
  ConcFetchStep \/ ParseBodyStep \/ ConcUpstreamReplyStep \/ ChatResumeStep

SpecConc == InitConc /\ [][NextConc]_vars

----------------------------------------------------------------------------
(* What the properties speak of *)

\* request r is a POST to /graphql whose body asks for the chat mutation
IsChat(r) ==
  /\ req[r] /= NoReq
  /\ req[r].method = "POST"
  /\ req[r].path = "/graphql"
  /\ req[r].body.k = "json"
  /\ req[r].body.op.k = "chat"

\* the arguments request r supplies
suppliedOf(r) == req[r].body.op.args

\* no credential is configured: OPENAI_API_KEY is absent or empty
NoCredential == env.OPENAI_API_KEY \in {Undefined, Str("")}

\* the body of a response carries an errors array
HasErrors(b) == "errors" \in DOMAIN b /\ Len(b.errors) >= 1

\* the body of a response carries a ChatResponse
HasChatResponse(b) == "data" \in DOMAIN b /\ b.data /= Null

\* a completion whose first choice has a message with a string content
WellFormed(c) ==
  /\ Len(c.choices) >= 1
  /\ c.choices[1].message /= Undefined
  /\ c.choices[1].message.content.k = "str"

\* request r, a chat with a non-empty messages argument, has been answered
\* after its upstream call settled
Settled(r) ==
  /\ pc[r] = "done"
  /\ IsChat(r)
  /\ Len(suppliedOf(r).messages) > 0
  /\ calls[r] = 1

----------------------------------------------------------------------------
(* C1 *)

\* C1: a chat invocation without a configured credential (absent or empty)
\* never starts an upstream call, and its result is a GraphQL error whose
\* message contains "API key".
C1_MissingCredential ==
  \A r \in DOMAIN pc :
    (IsChat(r) /\ NoCredential) =>
      /\ calls[r] = 0
      /\ payload[r] = NoPayload
      /\ ~outstanding[r]
      /\ reply[r] = NoReply
      /\ pc[r] = "done" =>
           /\ HasErrors(resp[r].body)
           /\ \E i \in 1..Len(resp[r].body.errors) :
                Contains(resp[r].body.errors[i].message, SubAPIKey)

\* a chat request answered while the key is the empty string
C1_Witness ==
  \E r \in DOMAIN pc :
    /\ IsChat(r)
    /\ env.OPENAI_API_KEY = Str("")
    /\ pc[r] = "done"
    /\ HasErrors(resp[r].body)

----------------------------------------------------------------------------
(* C2 *)

OptionalFields == {"top_p", "frequency_penalty", "presence_penalty"}

\* the defaults the schema declares: top_p 1.0, the penalties 0.0
DeclaredOptionalDefault ==
  [top_p |-> Num(10), frequency_penalty |-> Num(0),
   presence_penalty |-> Num(0)]

\* C2: in every upstream payload, each of top_p, frequency_penalty and
\* presence_penalty is present, with the supplied value, if and only if a
\* value was supplied that differs from the declared default; left out of
\* the query or supplied equal to the default, the field is omitted.
C2_OptionalFields ==
  \A r \in DOMAIN pc :
    payload[r] /= NoPayload =>
      \A f \in OptionalFields :
        LET s == suppliedOf(r)[f]
        IN  IF s = Undefined \/ s = DeclaredOptionalDefault[f]
            THEN f \notin DOMAIN payload[r]
            ELSE f \in DOMAIN payload[r] /\ payload[r][f] = s

\* a payload built from top_p 0.9, frequency_penalty 0.0 supplied and
\* presence_penalty left out
C2_Witness ==
  \E r \in DOMAIN pc :
    /\ payload[r] /= NoPayload
    /\ suppliedOf(r).top_p = Num(9)
    /\ suppliedOf(r).frequency_penalty = Num(0)
    /\ suppliedOf(r).presence_penalty = Undefined
    /\ DOMAIN payload[r] \cap OptionalFields = {"top_p"}

----------------------------------------------------------------------------
(* C3 *)

\* the one error message of the result of request r is m
OnlyError(r, m) ==
  /\ resp[r].body.data = Null
  /\ resp[r].body.errors = <<[message |-> m]>>

\* C3: when the upstream call or the reshaping of its response fails, the
\* result is a GraphQL error and no ChatResponse; its message is
\* "OpenAI API Error: " and the upstream message for a structured API
\* error, and "Failed to call OpenAI API: " and the failure's message for
\* every other failure (transport, no choices, unexpected shape).
C3_FailureMessages ==
  \A r \in DOMAIN pc :
    Settled(r) =>
      /\ reply[r].k = "APIError" =>
           OnlyError(r, PrefixAPIError \o reply[r].message)
      /\ reply[r].k = "Error" =>
           OnlyError(r, PrefixFailed \o reply[r].message)
      /\ (reply[r].k = "completion" /\ ~WellFormed(reply[r])) =>
           /\ resp[r].body.data = Null
           /\ HasErrors(resp[r].body)
           /\ Len(resp[r].body.errors) = 1
           /\ StartsWith(resp[r].body.errors[1].message, PrefixFailed)

----------------------------------------------------------------------------
(* C4 *)

\* C4: a chat execution with a non-empty messages argument ends, whatever
\* the credential and whatever the upstream returns or throws, with a
\* ChatResponse whose message.content is a string, or with an errors array
\* holding an entry whose message is not empty.
C4_ContentOrError ==
  \A r \in DOMAIN pc :
    (pc[r] = "done" /\ IsChat(r) /\ Len(suppliedOf(r).messages) > 0) =>
      LET b == resp[r].body
      IN  \/ /\ HasChatResponse(b)
             /\ b.data.chat.message.content.k = "str"
          \/ /\ HasErrors(b)
             /\ \E i \in 1..Len(b.errors) : Len(b.errors[i].message) > 0

\* a chat request answered after a completion whose first choice has a
\* null content
C4_Witness ==
  \E r \in DOMAIN pc :
    /\ Settled(r)
    /\ reply[r].k = "completion"
    /\ Len(reply[r].choices) >= 1
    /\ reply[r].choices[1].message /= Undefined
    /\ reply[r].choices[1].message.content = Null

----------------------------------------------------------------------------
(* C5 *)

\* C5: for a completion whose first choice has a string content, the result
\* is a ChatResponse with the completion's id, object, created and model,
\* the role and content of the first choice as its message, and as usage
\* the completion's three counts, or null when the completion has no usage.
C5_Reshape ==
  \A r \in DOMAIN pc :
    (Settled(r) /\ reply[r].k = "completion" /\ WellFormed(reply[r])) =>
      /\ HasChatResponse(resp[r].body)
      /\ "errors" \notin DOMAIN resp[r].body
      /\ LET c == resp[r].body.data.chat
             u == reply[r]
         IN  /\ c.id = u.id
             /\ c.object = u.object
             /\ c.created = u.created
             /\ c.model = u.model
             /\ c.message = [role    |-> u.choices[1].message.role,
                             content |-> u.choices[1].message.content]
             /\ \A i \in 1..Len(suppliedOf(r).messages) :
                  c.message.content /= Str(suppliedOf(r).messages[i].content)
             /\ IF u.usage \in {Undefined, Null}
                THEN c.usage = Null
                ELSE c.usage = [prompt_tokens     |-> u.usage.prompt_tokens,
                                completion_tokens |-> u.usage.completion_tokens,
                                total_tokens      |-> u.usage.total_tokens]

\* a ChatResponse for a completion of two choices that differ, without
\* usage
C5_Witness ==
  \E r \in DOMAIN pc :
    /\ Settled(r)
    /\ reply[r].k = "completion"
    /\ WellFormed(reply[r])
    /\ Len(reply[r].choices) = 2
    /\ reply[r].choices[2] /= reply[r].choices[1]
    /\ reply[r].usage = Undefined
    /\ HasChatResponse(resp[r].body)

----------------------------------------------------------------------------
(* C6 *)

\* C6: every upstream payload holds model, messages, temperature and
\* max_tokens, each the supplied value or, left out of the query, the
\* declared default ("gpt-3.5-turbo", 0.7, 1000); its messages are the
\* input messages, as many, in the same order, with the same role and
\* content at every position.
C6_RequiredFields ==
  \A r \in DOMAIN pc :
    payload[r] /= NoPayload =>
      LET s == suppliedOf(r)
          p == payload[r]
          or(v, d) == IF v = Undefined THEN d ELSE v
      IN  /\ {"model", "messages", "temperature", "max_tokens"}
               \subseteq DOMAIN p
          /\ p.model = or(s.model, Str("gpt-3.5-turbo"))
          /\ p.temperature = or(s.temperature, Num(7))
          /\ p.max_tokens = or(s.max_tokens, Num(1000))
          /\ Len(p.messages) = Len(s.messages)
          /\ \A i \in 1..Len(s.messages) :
               /\ p.messages[i].role = s.messages[i].role
               /\ p.messages[i].content = s.messages[i].content

\* a payload of two messages that differ, built with no model supplied
C6_Witness ==
  \E r \in DOMAIN pc :
    /\ payload[r] /= NoPayload
    /\ suppliedOf(r).model = Undefined
    /\ suppliedOf(r).temperature = Num(8)
    /\ Len(suppliedOf(r).messages) = 2
    /\ suppliedOf(r).messages[1] /= suppliedOf(r).messages[2]

----------------------------------------------------------------------------
(* C7 *)

\* request r is a POST to /graphql that has been answered
PostAnswered(r) ==
  /\ pc[r] = "done"
  /\ req[r].method = "POST"
  /\ req[r].path = "/graphql"

\* the body of request r is not JSON, or the engine throws in its setup
ParseFailure(r) ==
  \/ req[r].body.k = "badjson"
  \/ req[r].body.k = "json" /\ req[r].body.op.k = "badVariables"

\* the chat resolver of request r failed: no credential, an upstream or
\* transport error, or a completion of an unexpected shape
ResolverFailure(r) ==
  /\ IsChat(r)
  /\ \/ NoCredential
     \/ calls[r] = 1 /\ reply[r].k \in {"APIError", "Error"}
     \/ calls[r] = 1 /\ reply[r].k = "completion" /\ ~WellFormed(reply[r])

\* C7: a POST to /graphql whose body is not JSON, or for which the engine
\* throws in its setup, is answered with status 400 and a body
\* {errors: [{message}]}; one whose resolver fails is answered with status
\* 200 and the failure in the errors array of the result.
C7_FailureStatus ==
  \A r \in DOMAIN pc :
    PostAnswered(r) =>
      /\ ParseFailure(r) =>
           /\ resp[r].status = 400
           /\ DOMAIN resp[r].body = {"errors"}
           /\ Len(resp[r].body.errors) = 1
           /\ DOMAIN resp[r].body.errors[1] = {"message"}
      /\ ResolverFailure(r) =>
           /\ resp[r].status = 200
           /\ "data" \in DOMAIN resp[r].body
           /\ HasErrors(resp[r].body)

\* a POST to /graphql with a body that is not JSON, answered
C7_Witness ==
  \E r \in DOMAIN pc :
    /\ PostAnswered(r)
    /\ req[r].body.k = "badjson"
    /\ resp[r].status = 400

----------------------------------------------------------------------------
(* C8 *)

\* the handler that ran for request r, read off the state
handlerOf(r) ==
  IF pc[r] \in {"readBody", "awaiting"} THEN "graphql"
  ELSE IF resp[r] = preflightResponse THEN "preflight"
  ELSE IF resp[r] = playgroundResponse THEN "playground"
  ELSE IF resp[r] = healthResponse THEN "health"
  ELSE IF resp[r] = defaultResponse THEN "default"
  ELSE "graphql"

\* the routing table as the claim states it
statedHandler(method, path) ==
  IF method = "OPTIONS" THEN "preflight"
  ELSE IF method = "GET" /\ path = "/graphql" THEN "playground"
  ELSE IF method = "POST" /\ path = "/graphql" THEN "graphql"
  ELSE IF method = "GET" /\ path = "/health" THEN "health"
  ELSE "default"

\* C8 as stated: OPTIONS on any path gets the empty 200 response, GET
\* /graphql the console page, POST /graphql the GraphQL execution, GET
\* /health the health body, and every other method and path the static
\* description of the endpoints.
C8_RoutingAsStated ==
  \A r \in DOMAIN pc :
    req[r] /= NoReq =>
      handlerOf(r) = statedHandler(req[r].method, req[r].path)

\* C8, amended: as stated, except that /health gets the health body for
\* every method but OPTIONS, not for GET alone.
C8_Routing ==
  \A r \in DOMAIN pc :
    req[r] /= NoReq =>
      handlerOf(r) =
        IF req[r].path = "/health" /\ req[r].method /= "OPTIONS"
        THEN "health"
        ELSE statedHandler(req[r].method, req[r].path)

\* a POST to /health answered with the health body
C8_Witness ==
  \E r \in DOMAIN pc :
    /\ req[r] /= NoReq
    /\ req[r].method = "POST"
    /\ req[r].path = "/health"
    /\ resp[r] = healthResponse

----------------------------------------------------------------------------
(* C9 *)

\* C9: a request starts its upstream call at most once, and is answered
\* only when no upstream call of its own is outstanding: a call it started
\* has settled, with a result or an error, before the response exists.
C9_AwaitedOnce ==
  \A r \in DOMAIN pc :
    /\ calls[r] <= 1
    /\ resp[r] /= NoResp =>
         /\ ~outstanding[r]
         /\ calls[r] = 1 => reply[r] /= NoReply

\* a request answered after its one upstream call failed
C9_Witness ==
  \E r \in DOMAIN pc :
    /\ resp[r] /= NoResp
    /\ calls[r] = 1
    /\ reply[r] /= NoReply
    /\ reply[r].k = "Error"

----------------------------------------------------------------------------
(* C10 *)

\* the state of request r
localOf(r) ==
  <<pc[r], req[r], payload[r], calls[r], outstanding[r], reply[r], resp[r]>>

\* what a request q answers when it runs by itself with credential e and
\* upstream reply rep
aloneResponse(q, e, rep) ==
  LET o == postStart(q.body, e)
  IN  IF o.resp /= NoResp THEN o.resp ELSE postFinish(rep)

\* the payload and the response of every request are those of its own run
OwnRun ==
  \A r \in DOMAIN pc :
    /\ payload[r] /= NoPayload =>
         payload[r] = postStart(req[r].body, env).params
    /\ pc[r] = "done" => resp[r] = aloneResponse(req[r], env, reply[r])

\* a step changes the state of one request at most, and never the credential
OneRequestPerStep ==
  /\ env' = env
  /\ \A r, q \in DOMAIN pc :
       (r /= q /\ localOf(r)' /= localOf(r)) => localOf(q)' = localOf(q)

\* C10: with several requests in flight, under every interleaving, each
\* request's payload and response are those of the request run alone with
\* the credential and its own upstream reply, and no step of one request
\* changes the state of another or the credential.
C10_Independent == []OwnRun /\ [][OneRequestPerStep]_vars

\* two different requests suspended together, the reply of one arrived
\* while the call of the other is outstanding
C10_Witness ==
  \E r, q \in DOMAIN pc :
    /\ r /= q
    /\ pc[r] = "awaiting" /\ pc[q] = "awaiting"
    /\ req[r] /= req[q]
    /\ reply[r] /= NoReply
    /\ outstanding[q]

====
